---- MODULE Spec2Model ----
(***************************************************************************)
(* A model of merge_layers, the frame-compositing pipeline of the two      *)
(* program variants src/mar141.py (sequential, in-process cv2 video        *)
(* writer) and src/mar143.py (multiprocessing pool, frames staged in the   *)
(* directory temp_frames, external ffmpeg process).                        *)
(*                                                                         *)
(* A path is a pair <<layer, position>>; frame and layer indices are       *)
(* 0-based as in the code, TLA+ sequences are 1-based, so the path of      *)
(* layer l at frame i is layers[l + 1][i + 1].                             *)
(***************************************************************************)
EXTENDS Integers, Sequences, FiniteSets

\* ------------------------------------------------------------ bounds
MaxLayers == 2
MaxLen == 3
\* multiprocessing.cpu_count() of the machine (src/mar143.py:71)
NumProcesses == 2

Variants == {"mar141", "mar143"}
FpsValues == {0, 30}

\* The effect arguments merge_layers is called with.
EffectChoices ==
  { [blur_amount |-> 2, fog_amount |-> 100, blur_layers |-> {},  fog_layers |-> {}],
    [blur_amount |-> 2, fog_amount |-> 100, blur_layers |-> {0, 1}, fog_layers |-> {1}],
    [blur_amount |-> 2, fog_amount |-> 0,   blur_layers |-> {1}, fog_layers |-> {0}],
    [blur_amount |-> 0, fog_amount |-> 100, blur_layers |-> {0, 1}, fog_layers |-> {1}] }

\* Every list of at most MaxLayers layers, each a list of at most MaxLen paths
\* (the path lists start_merge builds are sorted directory listings: layer l
\* holds its own files <<l, 1>>, <<l, 2>>, ... in order).
LayerOfLen(l, n) == [j \in 1..n |-> <<l, j>>]
LayerLists ==
  UNION { { [l \in 1..k |-> LayerOfLen(l, lens[l])] : lens \in [1..k -> 0..MaxLen] }
          : k \in 0..MaxLayers }

PathsOf(ls) == UNION { { ls[l][j] : j \in DOMAIN ls[l] } : l \in DOMAIN ls }

\* ------------------------------------------------------------ normalization

LayerMax(ls) ==
  CHOOSE m \in { Len(ls[l]) : l \in DOMAIN ls } :
    \A l \in DOMAIN ls : Len(ls[l]) <= m

PadLayerFirst(layer, num_frames) ==
  IF Len(layer) < num_frames
    THEN layer \o [j \in 1..(num_frames - Len(layer)) |-> layer[1]]
    ELSE layer

\* layers[i] += [layers[i][-1]] * (num_frames - len(layers[i]))
PadLayer(layer, num_frames) ==
  IF Len(layer) < num_frames
    THEN layer \o [j \in 1..(num_frames - Len(layer)) |-> layer[Len(layer)]]
    ELSE layer

\* The padding loop of merge_layers (mar141) and start_merge (mar143):
\* "error" stands for the exception Python raises: max() of an empty list
\* (ValueError) or [-1] of an empty layer that needs padding (IndexError).
NormalizeError(ls) ==
  IF Len(ls) = 0 THEN "ValueError"
  ELSE IF \E l \in DOMAIN ls : Len(ls[l]) = 0 /\ Len(ls[l]) < LayerMax(ls)
    THEN "IndexError"
  ELSE "none"

Normalize(ls) == [l \in DOMAIN ls |-> PadLayer(ls[l], LayerMax(ls))]

\* ------------------------------------------------------------ state

VARIABLES
  variant,      \* which program file runs: "mar141" or "mar143"
  args,         \* the arguments of the call: the caller's layers as passed, fps, effects
  defect,       \* what is wrong with the image files on disk, if anything
  caller,       \* who calls merge_layers: "none" yet, "start_merge" or "other"
  passed,       \* the layers as they were when merge_layers was called
  merged_images,\* the preview frames start_merge generated
  layers,       \* the caller's list of path lists (mar141 pads it in place)
  pc,           \* position in merge_layers
  err,          \* the exception in flight, "none" if none
  num_frames,
  frame_data,   \* mar143: the jobs, a sequence of [frame_index, layer_paths]
  nextJob,      \* mar143: number of jobs the pool has handed to workers
  running,      \* mar143: frame indices being completed by a worker
  results,      \* mar143: the pool's result queue, in completion order
  progress,     \* the values progress_callback was called with, in call order
  temp_dir,     \* mar143: the directory temp_frames: [exists, made, files]
  completed,    \* the frame indices whose compositing completed, in that order
  written,      \* the frames handed to the encoder, in order
  video_writer, \* mar141: "none", "open", "failed" (not opened), "released"
  ffmpeg,       \* mar143: "idle", "ok", "failed"
  output        \* the file at output_video: "absent", "partial", "complete"

vars == << variant, args, defect, caller, passed, merged_images, layers, pc, err, num_frames, frame_data, nextJob,
           running, results, progress, temp_dir, completed, written, video_writer,
           ffmpeg, output >>

\* ------------------------------------------------------------ image files

\* What Image.open(path) finds: "bad" cannot be decoded, "big" decodes to an
\* image of another size than the rest.
ImageKind(path) ==
  CASE defect.kind = "bad" /\ defect.at = path -> "bad"
    [] defect.kind = "big" /\ defect.at = path -> "big"
    [] defect.kind = "bigframe" /\ defect.at[2] = path[2] -> "big"
    [] OTHER -> "ok"

ImageSize(path) == IF ImageKind(path) = "big" THEN 2 ELSE 1

\* Image.open(path).convert("RGBA"): a decoded image is its size and the
\* stack of layer images it is made of, bottom first, each with the effects
\* applied to it, in the order they were applied.
Decode(path) ==
  [size |-> ImageSize(path), stack |-> << [path |-> path, fx |-> << >>] >>]

\* image.filter(ImageFilter.GaussianBlur(radius=blur_amount))
apply_blur(image, blur_amount) ==
  [image EXCEPT !.stack = [k \in DOMAIN image.stack |->
                            [image.stack[k] EXCEPT
                              !.fx = @ \o << <<"blur", blur_amount>> >>]]]

\* Image.alpha_composite(image.convert("RGBA"), fog)
apply_fog(image, fog_amount) ==
  [image EXCEPT !.stack = [k \in DOMAIN image.stack |->
                            [image.stack[k] EXCEPT
                              !.fx = @ \o << <<"fog", fog_amount>> >>]]]

alpha_compositeSwapped(merged, frame) ==
  [size |-> merged.size, stack |-> frame.stack \o merged.stack]

\* Image.alpha_composite(merged, frame); the caller checks the sizes
alpha_composite(merged, frame) ==
  [size |-> merged.size, stack |-> merged.stack \o frame.stack]

NoImage == [size |-> 0, stack |-> << >>]

\* ------------------------------------------------------------ compositing

Effects143NoGate(frame, layer_index, fx) ==
  LET blurred == IF layer_index \in fx.blur_layers
                   THEN apply_blur(frame, fx.blur_amount) ELSE frame
  IN  IF layer_index \in fx.fog_layers
        THEN apply_fog(blurred, fx.fog_amount) ELSE blurred

\* The two "if layer_index in ... and ..._amount > 0" of process_frame
\* (mar143, lines 43-46): blur first, then fog.
Effects143(frame, layer_index, fx) ==
  LET blurred == IF layer_index \in fx.blur_layers /\ fx.blur_amount > 0
                   THEN apply_blur(frame, fx.blur_amount) ELSE frame
  IN  IF layer_index \in fx.fog_layers /\ fx.fog_amount > 0
        THEN apply_fog(blurred, fx.fog_amount) ELSE blurred

\* The loop of process_frame over enumerate(layer_paths), from position k on:
\* [err, merged], err the exception the loop raises ("none": it ends).
RECURSIVE Loop143(_, _, _, _)
Loop143(layer_paths, k, merged, fx) ==
  IF k > Len(layer_paths) THEN [err |-> "none", merged |-> merged]
  ELSE IF ImageKind(layer_paths[k]) = "bad"
    THEN [err |-> "DecodeError", merged |-> merged]
  ELSE LET frame == Effects143(Decode(layer_paths[k]), k - 1, fx)
       IN  IF merged = NoImage
             THEN Loop143(layer_paths, k + 1, frame, fx)
           ELSE IF merged.size # frame.size
             THEN [err |-> "DimensionMismatch", merged |-> merged]
           ELSE Loop143(layer_paths, k + 1, alpha_composite(merged, frame), fx)

\* process_frame up to the save (mar143, lines 36-51)
process_frame(layer_paths, fx) == Loop143(layer_paths, 1, NoImage, fx)

\* mar141, lines 64-69: effects only on the layers above the bottom one, and
\* "blur_layers and ..." guards the default None (an empty list here).
Effects141(frame, layer_index, fx) ==
  LET blurred == IF fx.blur_layers # {} /\ layer_index \in fx.blur_layers
                    /\ fx.blur_amount > 0
                   THEN apply_blur(frame, fx.blur_amount) ELSE frame
  IN  IF fx.fog_layers # {} /\ layer_index \in fx.fog_layers /\ fx.fog_amount > 0
        THEN apply_fog(blurred, fx.fog_amount) ELSE blurred

\* mar141, lines 60-71: the loop over layers[1:], from layer position k on
RECURSIVE Loop141(_, _, _, _, _)
Loop141(ls, i, k, merged, fx) ==
  IF k > Len(ls) THEN [err |-> "none", merged |-> merged]
  ELSE IF ImageKind(ls[k][i + 1]) = "bad"
    THEN [err |-> "DecodeError", merged |-> merged]
  ELSE LET frame == Effects141(Decode(ls[k][i + 1]), k - 1, fx)
       IN  IF merged.size # frame.size
             THEN [err |-> "DimensionMismatch", merged |-> merged]
             ELSE Loop141(ls, i, k + 1, alpha_composite(merged, frame), fx)

\* mar141, lines 57-71: the merged image of frame i
merged_image(ls, i, fx) ==
  IF ImageKind(ls[1][i + 1]) = "bad"
    THEN [err |-> "DecodeError", merged |-> NoImage]
    ELSE Loop141(ls, i, 2, Decode(ls[1][i + 1]), fx)

\* ------------------------------------------------------------ initial states

NoFiles == [i \in {} |-> NoImage]

\* A frame file that was in temp_frames before this run started.
StaleImage == [size |-> 1, stack |-> << [path |-> <<0, 0>>, fx |-> << >>] >>]

\* os.makedirs(temp_dir, exist_ok=True) accepts a directory that is already
\* there, with whatever a run that was killed before its cleanup left in it.
TempDirs ==
  { [exists |-> FALSE, made |-> FALSE, files |-> NoFiles],
    [exists |-> TRUE, made |-> FALSE, files |-> [i \in 0..MaxLen |-> StaleImage]] }

Defects(ls) ==
  { [kind |-> "none", at |-> <<0, 0>>] }
    \cup { [kind |-> k, at |-> p] : k \in {"bad", "big"}, p \in PathsOf(ls) }
    \cup { [kind |-> "bigframe", at |-> p] : p \in { q \in PathsOf(ls) : q[1] = 1 } }

Init ==
  /\ variant \in Variants
  /\ args \in [layers : LayerLists, fps : FpsValues, fx : EffectChoices]
  /\ defect \in Defects(args.layers)
  /\ caller = "none"
  /\ passed = << >>
  /\ merged_images = << >>
  /\ layers = args.layers
  /\ pc = "start"
  /\ err = "none"
  /\ num_frames = 0
  /\ frame_data = << >>
  /\ nextJob = 0
  /\ running = {}
  /\ results = << >>
  /\ progress = << >>
  /\ temp_dir \in IF variant = "mar143" THEN TempDirs
                  ELSE { [exists |-> FALSE, made |-> FALSE, files |-> NoFiles] }
  /\ completed = << >>
  /\ written = << >>
  /\ video_writer = "none"
  /\ ffmpeg = "idle"
  /\ output = "absent"

\* ------------------------------------------------------------ progress

ProgressValueOff(i, n) == [num |-> i * 100, den |-> n]

\* progress_callback((i + 1) * 100 / num_frames) (mar143, line 85) and
\* progress_callback((i + 1) / total_frames * 100) (mar141, line 81): the
\* percentage as the fraction num / den.
ProgressValue(i, n) == [num |-> (i + 1) * 100, den |-> n]

\* ------------------------------------------------------------ start_merge

\* generate_merged_images of mar141 (lines 330-335): no effect on layer 0
PreviewEffects141(frame, layer_index, fx) ==
  LET blurred == IF layer_index \in fx.blur_layers /\ fx.blur_amount > 0
                   THEN apply_blur(frame, fx.blur_amount) ELSE frame
  IN  IF layer_index \in fx.fog_layers /\ fx.fog_amount > 0
        THEN apply_fog(blurred, fx.fog_amount) ELSE blurred

\* generate_merged_images of mar143 (lines 357-360 for layer 0, 369-372 for
\* the layers above it)
PreviewEffects143(frame, layer_index, fx) ==
  LET blurred == IF layer_index \in fx.blur_layers /\ fx.blur_amount > 0
                   THEN apply_blur(frame, fx.blur_amount) ELSE frame
  IN  IF layer_index \in fx.fog_layers /\ fx.fog_amount > 0
        THEN apply_fog(blurred, fx.fog_amount) ELSE blurred

\* The loop over layers[1:] of generate_merged_images, from layer position k on
RECURSIVE PreviewLoop(_, _, _, _, _, _)
PreviewLoop(v, ls, i, k, merged, fx) ==
  IF k > Len(ls) THEN [err |-> "none", merged |-> merged]
  ELSE IF ImageKind(ls[k][i + 1]) = "bad"
    THEN [err |-> "DecodeError", merged |-> merged]
  ELSE LET image == Decode(ls[k][i + 1])
           frame == IF v = "mar141" THEN PreviewEffects141(image, k - 1, fx)
                                    ELSE PreviewEffects143(image, k - 1, fx)
       IN  IF merged.size # frame.size
             THEN [err |-> "DimensionMismatch", merged |-> merged]
             ELSE PreviewLoop(v, ls, i, k + 1, alpha_composite(merged, frame), fx)

PreviewFrameNoBase(v, ls, i, fx) ==
  IF ImageKind(ls[1][i + 1]) = "bad"
    THEN [err |-> "DecodeError", merged |-> NoImage]
    ELSE PreviewLoop(v, ls, i, 2, Decode(ls[1][i + 1]), fx)

\* One preview frame: mar141 lines 323-337, mar143 lines 354-374
PreviewFrame(v, ls, i, fx) ==
  IF ImageKind(ls[1][i + 1]) = "bad"
    THEN [err |-> "DecodeError", merged |-> NoImage]
    ELSE LET first == Decode(ls[1][i + 1])
             first_layer == IF v = "mar141" THEN first
                                            ELSE PreviewEffects143(first, 0, fx)
         IN  PreviewLoop(v, ls, i, 2, first_layer, fx)

\* generate_merged_images: num_frames = len(layers[0]); [err, images]
generate_merged_images(v, ls, fx) ==
  LET n == Len(ls[1])
      bad == { i \in 0..(n - 1) : PreviewFrame(v, ls, i, fx).err # "none" }
  IN  IF bad # {}
        THEN [err |-> PreviewFrame(v, ls, CHOOSE i \in bad : \A j \in bad : i <= j, fx).err,
              images |-> << >>]
        ELSE [err |-> "none",
              images |-> [i \in 1..n |-> PreviewFrame(v, ls, i - 1, fx).merged]]

\* The preview box of update_preview, (400, 300), in the unit of ImageSize:
\* a frame of the ordinary size fits it, a bigger one does not.
PreviewBox == 1

\* merged_image.thumbnail((400, 300)): the image is shrunk, in place, to fit
\* the box when it is larger; its content is the same picture.
thumbnail(image) ==
  [image EXCEPT !.size = IF @ > PreviewBox THEN PreviewBox ELSE @]

\* update_preview (mar141 lines 343-356, mar143 lines 380-393) with the
\* timeline slider at frame_index: the cached frame itself is shrunk.
update_preview(images, frame_index) ==
  IF images = << >> \/ frame_index < 0 \/ frame_index >= Len(images)
    THEN images
    ELSE [images EXCEPT ![frame_index + 1] = thumbnail(@)]

\* start_merge up to its call of merge_layers (mar141 lines 256-310, mar143
\* lines 278-335). The window always has at least one layer, and the effect
\* list boxes offer exactly the layers there are. A folder without PNG files
\* and a failing preview end start_merge with an error box, before the call.
\* The timeline slider is at 0 when update_preview is called.
StartMerge ==
  /\ pc = "start"
  /\ Len(args.layers) >= 1
  /\ \A i \in args.fx.blur_layers \cup args.fx.fog_layers : i < Len(args.layers)
  /\ IF \E l \in DOMAIN layers : Len(layers[l]) = 0
       THEN /\ err' = "EmptyFolder"
            /\ pc' = "returned"
            /\ UNCHANGED << layers, merged_images, caller, passed >>
       ELSE /\ layers' = Normalize(layers)
            /\ LET r == generate_merged_images(variant, layers', args.fx)
               IN  IF r.err # "none"
                     THEN /\ err' = r.err
                          /\ pc' = "returned"
                          /\ UNCHANGED << merged_images, caller, passed >>
                     ELSE /\ merged_images' = update_preview(r.images, 0)
                          /\ caller' = "start_merge"
                          /\ passed' = layers'
                          /\ pc' = "call"
                          /\ UNCHANGED err
  /\ UNCHANGED << variant, args, defect, num_frames, frame_data, nextJob, running,
                  results, progress, temp_dir, completed, written, video_writer,
                  ffmpeg, output >>

\* merge_layers called by other code than start_merge, with the layers as given
CallMergeLayers ==
  /\ pc = "start"
  /\ caller' = "other"
  /\ passed' = layers
  /\ pc' = "call"
  /\ UNCHANGED << variant, args, defect, merged_images, layers, err, num_frames,
                  frame_data, nextJob, running, results, progress, temp_dir, completed,
                  written, video_writer, ffmpeg, output >>

\* ------------------------------------------------------------ mar141

\* The in-place padding loop up to the layer at which it raises (all of it
\* when it does not raise).
PadInPlace(ls) ==
  LET m == LayerMax(ls)
      stop == IF \E l \in DOMAIN ls : Len(ls[l]) = 0 /\ m > 0
                THEN CHOOSE l \in DOMAIN ls :
                       /\ Len(ls[l]) = 0
                       /\ \A k \in 1..(l - 1) : Len(ls[k]) # 0
                ELSE Len(ls) + 1
  IN  [l \in DOMAIN ls |-> IF l < stop THEN PadLayer(ls[l], m) ELSE ls[l]]

\* mar141, lines 39-44
Normalize141 ==
  /\ variant = "mar141" /\ pc = "call"
  /\ IF NormalizeError(layers) # "none"
       THEN /\ err' = NormalizeError(layers)
            /\ layers' = IF Len(layers) = 0 THEN layers ELSE PadInPlace(layers)
            /\ pc' = "done"
            /\ UNCHANGED num_frames
       ELSE /\ layers' = Normalize(layers)
            /\ num_frames' = LayerMax(layers)
            /\ pc' = "open"
            /\ UNCHANGED err
  /\ UNCHANGED << variant, args, defect, caller, passed, merged_images, frame_data, nextJob, running, results,
                  progress, temp_dir, completed, written, video_writer, ffmpeg, output >>

\* mar141, lines 46-52: the first image gives the frame size, then the
\* writer is constructed; cv2.VideoWriter does not raise when it cannot open,
\* and nothing calls isOpened().
Open141 ==
  /\ variant = "mar141" /\ pc = "open"
  /\ IF Len(layers[1]) = 0
       THEN err' = "IndexError" /\ pc' = "done" /\ UNCHANGED << video_writer, output >>
     ELSE IF ImageKind(layers[1][1]) = "bad"
       THEN err' = "DecodeError" /\ pc' = "done" /\ UNCHANGED << video_writer, output >>
     ELSE /\ \E opened \in BOOLEAN :
               /\ video_writer' = IF opened THEN "open" ELSE "failed"
               /\ output' = IF opened THEN "partial" ELSE output
          /\ pc' = "loop"
          /\ UNCHANGED err
  /\ UNCHANGED << variant, args, defect, caller, passed, merged_images, layers, num_frames, frame_data, nextJob,
                  running, results, progress, temp_dir, completed, written, ffmpeg >>

\* mar141, lines 55-81: one iteration of "for i in range(total_frames)"
Frame141 ==
  /\ variant = "mar141" /\ pc = "loop" /\ nextJob < num_frames
  /\ LET i == nextJob
         r == merged_image(layers, i, args.fx)
     IN  IF r.err # "none"
           THEN /\ err' = r.err
                /\ pc' = "done"
                /\ UNCHANGED << nextJob, completed, written, progress >>
           ELSE /\ completed' = Append(completed, i)
                /\ written' = Append(written, [index |-> i, image |-> r.merged])
                /\ progress' = Append(progress, ProgressValue(i, num_frames))
                /\ nextJob' = i + 1
                /\ UNCHANGED << err, pc >>
  /\ UNCHANGED << variant, args, defect, caller, passed, merged_images, layers, num_frames, frame_data, running,
                  results, temp_dir, video_writer, ffmpeg, output >>

\* mar141, line 84: video_writer.release()
Release141 ==
  /\ variant = "mar141" /\ pc = "loop" /\ nextJob = num_frames
  /\ video_writer' = IF video_writer = "open" THEN "released" ELSE video_writer
  /\ output' = IF video_writer = "open" THEN "complete" ELSE output
  /\ pc' = "done"
  /\ UNCHANGED << variant, args, defect, caller, passed, merged_images, layers, err, num_frames, frame_data, nextJob,
                  running, results, progress, temp_dir, completed, written, ffmpeg >>

\* ------------------------------------------------------------ mar143

\* mar143, line 59: os.makedirs(temp_dir, exist_ok=True)
Makedirs143 ==
  /\ variant = "mar143" /\ pc = "call"
  /\ temp_dir' = [temp_dir EXCEPT !.exists = TRUE, !.made = TRUE]
  /\ pc' = "prepare"
  /\ UNCHANGED << variant, args, defect, caller, passed, merged_images, layers, err, num_frames, frame_data, nextJob,
                  running, results, progress, completed, written, video_writer,
                  ffmpeg, output >>

\* mar143, line 62: num_frames = len(image_paths[0])
NumFrames143(image_paths) == Len(image_paths[1])

\* mar143, lines 65-68: one job per frame index, in ascending order
FrameDataShort(image_paths, n) ==
  [i \in 1..(n - 1) |-> [frame_index |-> i - 1,
                         layer_paths |-> [l \in DOMAIN image_paths |-> image_paths[l][i]]]]

FrameData(image_paths, n) ==
  [i \in 1..n |-> [frame_index |-> i - 1,
                   layer_paths |-> [l \in DOMAIN image_paths |-> image_paths[l][i]]]]

\* mar143, lines 62-68, inside the try: image_paths[0] of an empty list and
\* layer[i] past the end of a shorter layer raise IndexError.
Prepare143 ==
  /\ variant = "mar143" /\ pc = "prepare"
  /\ IF Len(layers) = 0
       THEN err' = "IndexError" /\ pc' = "finally" /\ UNCHANGED << num_frames, frame_data >>
     ELSE /\ num_frames' = NumFrames143(layers)
          /\ IF \E l \in DOMAIN layers : Len(layers[l]) < NumFrames143(layers)
               THEN err' = "IndexError" /\ pc' = "finally" /\ UNCHANGED frame_data
               ELSE /\ frame_data' = FrameData(layers, NumFrames143(layers))
                    /\ pc' = "pool"
                    /\ UNCHANGED err
  /\ UNCHANGED << variant, args, defect, caller, passed, merged_images, layers, nextJob, running, results, progress,
                  temp_dir, completed, written, video_writer, ffmpeg, output >>

\* The pool hands the next job of frame_data, in order, to an idle worker.
Dispatch143 ==
  /\ variant = "mar143" /\ pc = "pool"
  /\ nextJob < Len(frame_data)
  /\ Cardinality(running) < NumProcesses
  /\ running' = running \cup { frame_data[nextJob + 1].frame_index }
  /\ nextJob' = nextJob + 1
  /\ UNCHANGED << variant, args, defect, caller, passed, merged_images, layers, pc, err, num_frames, frame_data,
                  results, progress, temp_dir, completed, written, video_writer,
                  ffmpeg, output >>

SaveFrameByArrival(files, frame_index, merged) ==
  LET k == Cardinality({ i \in DOMAIN files : files[i] # StaleImage })
  IN  [i \in DOMAIN files \cup {k} |-> IF i = k THEN merged ELSE files[i]]

\* mar143, lines 53-54: the file frame_<frame_index:05d>.png is (over)written
SaveFrame(files, frame_index, merged) ==
  [i \in DOMAIN files \cup {frame_index} |->
     IF i = frame_index THEN merged ELSE files[i]]

\* A worker runs process_frame on its job to the end (mar143, lines 34-55):
\* it saves the frame and returns frame_index, or it raises.
WorkerFinish143(i) ==
  /\ variant = "mar143" /\ pc = "pool"
  /\ i \in running
  /\ LET r == process_frame(frame_data[i + 1].layer_paths, args.fx)
     IN  IF r.err # "none"
           THEN /\ results' = Append(results, [frame_index |-> i, err |-> r.err])
                /\ UNCHANGED << temp_dir, completed >>
           ELSE /\ temp_dir' = [temp_dir EXCEPT !.files = SaveFrame(@, i, r.merged)]
                /\ completed' = Append(completed, i)
                /\ results' = Append(results, [frame_index |-> i, err |-> "none"])
  /\ running' = running \ {i}
  /\ UNCHANGED << variant, args, defect, caller, passed, merged_images, layers, pc, err, num_frames, frame_data,
                  nextJob, progress, written, video_writer, ffmpeg, output >>

CollectSkip(result) == "none"

\* What the iteration over imap_unordered does with a result: a job that
\* raised is re-raised in the parent.
CollectError(result) == result.err

\* mar143, lines 83-85: the next result of imap_unordered; leaving the with
\* block on an exception terminates the pool and its workers.
Collect143 ==
  /\ variant = "mar143" /\ pc = "pool"
  /\ results # << >>
  /\ IF CollectError(Head(results)) # "none"
       THEN /\ err' = CollectError(Head(results))
            /\ running' = {}
            /\ results' = << >>
            /\ pc' = "finally"
            /\ UNCHANGED progress
       ELSE /\ progress' = Append(progress, ProgressValue(Len(progress), num_frames))
            /\ results' = Tail(results)
            /\ UNCHANGED << err, running, pc >>
  /\ UNCHANGED << variant, args, defect, caller, passed, merged_images, layers, num_frames, frame_data, nextJob,
                  temp_dir, completed, written, video_writer, ffmpeg, output >>

\* The for loop ends when every job's result was yielded; the with block exits.
PoolExit143 ==
  /\ variant = "mar143" /\ pc = "pool"
  /\ Len(progress) = Len(frame_data)
  /\ pc' = "ffmpeg"
  /\ UNCHANGED << variant, args, defect, caller, passed, merged_images, layers, err, num_frames, frame_data, nextJob,
                  running, results, progress, temp_dir, completed, written,
                  video_writer, ffmpeg, output >>

\* "-i temp_frames/frame_%05d.png": ffmpeg reads frame_00000, frame_00001, ...
\* up to the first number that has no file.
RECURSIVE FfmpegInputFrom(_, _)
FfmpegInputFrom(files, k) ==
  IF k \in DOMAIN files
    THEN << [index |-> k, image |-> files[k]] >> \o FfmpegInputFrom(files, k + 1)
    ELSE << >>

FfmpegInput(files) == FfmpegInputFrom(files, 0)

\* mar143, lines 88-99: subprocess.run(ffmpeg_command, check=True). ffmpeg
\* fails on a frame rate that is not positive and when there is no input
\* file; otherwise it may still fail after k frames (codec, disk, path).
RunFFmpeg143 ==
  /\ variant = "mar143" /\ pc = "ffmpeg"
  /\ LET input == FfmpegInput(temp_dir.files)
     IN  IF args.fps <= 0 \/ input = << >>
           THEN /\ ffmpeg' = "failed"
                /\ err' = "CalledProcessError"
                /\ UNCHANGED << written, output >>
           ELSE \/ /\ ffmpeg' = "ok"
                   /\ written' = input
                   /\ output' = "complete"
                   /\ UNCHANGED err
                \/ \E k \in 0..(Len(input) - 1) :
                     /\ ffmpeg' = "failed"
                     /\ written' = SubSeq(input, 1, k)
                     /\ output' = "partial"
                     /\ err' = "CalledProcessError"
  /\ pc' = "finally"
  /\ UNCHANGED << variant, args, defect, caller, passed, merged_images, layers, num_frames, frame_data, nextJob,
                  running, results, progress, temp_dir, completed, video_writer >>

KeepTree(dir) == dir

\* shutil.rmtree(temp_dir, ignore_errors=True)
Rmtree(dir) == [dir EXCEPT !.exists = FALSE, !.files = NoFiles]

\* mar143, lines 101-106: the exception, if any, is re-raised after the cleanup
Finally143 ==
  /\ variant = "mar143" /\ pc = "finally"
  /\ temp_dir' = Rmtree(temp_dir)
  /\ pc' = "done"
  /\ UNCHANGED << variant, args, defect, caller, passed, merged_images, layers, err, num_frames, frame_data, nextJob,
                  running, results, progress, completed, written, video_writer,
                  ffmpeg, output >>

\* ------------------------------------------------------------ specification

Next ==
  \/ StartMerge
  \/ CallMergeLayers
  \/ Normalize141
  \/ Open141
  \/ Frame141
  \/ Release141
  \/ Makedirs143
  \/ Prepare143
  \/ Dispatch143
  \/ \E i \in running : WorkerFinish143(i)
  \/ Collect143
  \/ PoolExit143
  \/ RunFFmpeg143
  \/ Finally143

Spec == Init /\ [][Next]_vars

\* ------------------------------------------------------------ properties

\* merge_layers has ended: it returned (err = "none") or raised err.
Ended == pc = "done"
Succeeded == pc = "done" /\ err = "none"

Count(seq, x) == Cardinality({ k \in DOMAIN seq : seq[k] = x })

\* The longest of the layers, stated without the code's max()
IsMaxLen(ls, m) ==
  /\ \A l \in DOMAIN ls : Len(ls[l]) <= m
  /\ \E l \in DOMAIN ls : Len(ls[l]) = m

ValidLayers(ls) == Len(ls) > 0 /\ \A l \in DOMAIN ls : Len(ls[l]) > 0

\* The frame loop of merge_layers has its frames: mar141 got past the
\* padding with at least one frame, mar143 built its jobs.
HasFrames ==
  IF variant = "mar141" THEN num_frames > 0 /\ pc \in {"open", "loop", "done"}
                        ELSE frame_data # << >>

\* The path of each layer at frame index i, bottom layer first
PathsAt(i) ==
  IF variant = "mar141" THEN [l \in DOMAIN layers |-> layers[l][i + 1]]
                        ELSE frame_data[i + 1].layer_paths

\* What compositing frame i ends with, as the running variant computes it
FrameErr(i) ==
  IF variant = "mar141" THEN merged_image(layers, i, args.fx).err
                        ELSE process_frame(PathsAt(i), args.fx).err

FailingFrames == { i \in 0..(num_frames - 1) : FrameErr(i) # "none" }

\* C1: whatever the order in which the workers complete, the frame the
\* encoder receives at position k has frame index k, and for k < num_frames
\* it is the composite of exactly the layers' paths at frame index k.
C1_EncoderOrder ==
  \A k \in DOMAIN written :
    /\ written[k].index = k - 1
    /\ (k - 1 < num_frames) =>
         /\ Len(written[k].image.stack) = Len(layers)
         /\ \A l \in DOMAIN layers :
              written[k].image.stack[l].path = layers[l][k]

\* C1's case: mar143 encoded three frames its workers completed out of order.
C1_Witness ==
  /\ variant = "mar143" /\ ffmpeg = "ok" /\ num_frames = 3
  /\ Len(completed) = 3 /\ completed[1] = 1 /\ completed[2] = 0
  /\ Len(written) >= 3

\* C2: after normalization every layer is as long as the longest input
\* layer, keeps its own paths at their positions, and holds its last own
\* path at every position past its own end.
C2_Padding ==
  ( /\ ValidLayers(args.layers)
    /\ \/ caller = "start_merge"
       \/ variant = "mar141" /\ pc \in {"open", "loop", "done"} )
  => /\ Len(layers) = Len(args.layers)
     /\ \A l \in DOMAIN layers :
          /\ IsMaxLen(args.layers, Len(layers[l]))
          /\ \A j \in DOMAIN layers[l] :
               layers[l][j] = IF j <= Len(args.layers[l])
                                THEN args.layers[l][j]
                                ELSE args.layers[l][Len(args.layers[l])]

\* C2's case: a layer of two paths was padded to three frames.
C2_Witness ==
  /\ pc = "loop"
  /\ \E l \in DOMAIN layers : Len(args.layers[l]) = 2 /\ Len(layers[l]) = 3
  /\ caller = "other"

\* C3: when the compositing of some frame fails, merge_layers ends with that
\* frame's error, the encoder has received no frame for a failed index, and
\* it has received fewer than num_frames frames.
C3_FailurePropagates ==
  (Ended /\ HasFrames /\ FailingFrames # {})
  => /\ err \in { FrameErr(i) : i \in FailingFrames }
     /\ Len(written) < num_frames
     /\ \A k \in DOMAIN written : written[k].index \notin FailingFrames

\* C3's case: a mar143 run ended on a failing frame after another frame had
\* been composited and saved.
C3_Witness ==
  /\ variant = "mar143" /\ Ended /\ HasFrames
  /\ FailingFrames # {} /\ completed # << >>
  /\ err = "DecodeError"

\* C4: merge_layers never ends with an opened encoder that was not
\* finalized, nor with a partial file at the output path.
C4_Atomic ==
  Ended => (video_writer # "open" /\ output # "partial")

\* C5: mar143 has created temp_frames before any frame is processed, and
\* temp_frames does not exist once merge_layers has ended, however it ended.
C5_TempDir ==
  variant = "mar143" =>
    /\ (running # {} \/ completed # << >>) => temp_dir.made
    /\ running # {} => temp_dir.exists
    /\ Ended => ~temp_dir.exists

\* C5's case: a mar143 run that had saved frames ended with an error.
C5_Witness ==
  /\ variant = "mar143" /\ Ended /\ err # "none"
  /\ temp_dir.made /\ completed # << >>

\* C6: the k-th value given to the progress callback is k / num_frames as a
\* percentage and stands for a completed frame; the values never decrease
\* and stay within [0, 100]; a successful merge of one frame or more has
\* made num_frames calls, one per completion, and only the last carried 100.
C6_Progress ==
  /\ Len(progress) <= Len(completed)
  /\ \A k \in DOMAIN progress :
       /\ progress[k].den > 0
       /\ progress[k].num * num_frames = 100 * k * progress[k].den
       /\ 0 <= progress[k].num /\ progress[k].num <= 100 * progress[k].den
       /\ k > 1 => progress[k - 1].num * progress[k].den
                     <= progress[k].num * progress[k - 1].den
  /\ (Succeeded /\ num_frames >= 1) =>
       /\ Len(progress) = num_frames
       /\ Len(completed) = num_frames
       /\ { k \in DOMAIN progress : progress[k].num = 100 * progress[k].den }
            = { Len(progress) }

\* C6's case: a successful mar143 merge of three frames whose workers
\* completed out of order.
C6_Witness ==
  /\ variant = "mar143" /\ Succeeded /\ num_frames = 3
  /\ completed[1] = 1
  /\ Len(progress) = 3

\* C7: in a successful merge every frame index below num_frames was
\* composited exactly once and received by the encoder exactly once, and no
\* other index was composited.
C7_ExactlyOnce ==
  Succeeded =>
    /\ \A i \in 0..(num_frames - 1) :
         /\ Count(completed, i) = 1
         /\ Cardinality({ k \in DOMAIN written : written[k].index = i }) = 1
    /\ \A k \in DOMAIN completed : completed[k] \in 0..(num_frames - 1)

\* C7's case: a successful mar143 merge of three frames, the last completed
\* before the first.
C7_Witness ==
  /\ variant = "mar143" /\ Succeeded /\ num_frames = 3
  /\ Len(completed) = 3 /\ completed[1] = 1 /\ completed[3] = 0
  /\ caller = "start_merge"

ValidationErrors == {"ValueError", "IndexError"}

\* C8: called with no layer, or with an empty layer, merge_layers ends with
\* a validation error, no frame composited and none received by the encoder.
C8_EmptyRejected ==
  (Ended /\ ~ValidLayers(passed))
  => /\ err \in ValidationErrors
     /\ completed = << >>
     /\ written = << >>

InvalidArgs ==
  \/ args.fps <= 0
  \/ \E i \in args.fx.blur_layers \cup args.fx.fog_layers : i >= Len(args.layers)

\* C9: called with an effect-layer index that is not below the number of
\* layers, or with an fps that is not positive, merge_layers composites no
\* frame, starts no worker and no encoder, and ends with an error.
C9_FailFast ==
  (caller # "none" /\ InvalidArgs)
  => /\ completed = << >>
     /\ running = {}
     /\ video_writer = "none"
     /\ ffmpeg = "idle"
     /\ Ended => err # "none"

\* C10: no frame is composited without error when one of its images has
\* another size than the canvas, the size of layer 0's first image.
C10_DimensionCheck ==
  \A k \in DOMAIN completed :
    \A l \in DOMAIN PathsAt(completed[k]) :
      ImageSize(PathsAt(completed[k])[l]) = ImageSize(layers[1][1])

\* The positions of written that hold frames of this run
OwnFrames == { k \in DOMAIN written : k - 1 < num_frames }

\* Frame k - 1 composited again by the running variant, with other effects
Recompose(k, fx) ==
  IF variant = "mar141" THEN merged_image(layers, k - 1, fx).merged
                        ELSE process_frame(PathsAt(k - 1), fx).merged

HasFx(layer_image, name) ==
  \E e \in DOMAIN layer_image.fx : layer_image.fx[e][1] = name

AltSelections == SUBSET (0..MaxLayers)

\* C11: with blur_amount = 0 the frame the encoder receives is the same for
\* every choice of blur_layers, with fog_amount = 0 for every choice of
\* fog_layers, and a layer image carries an effect only if its index is
\* selected for the effect and the effect's amount is above 0.
C11_Gating ==
  \A k \in OwnFrames :
    /\ args.fx.blur_amount = 0 =>
         \A alt \in AltSelections :
           Recompose(k, [args.fx EXCEPT !.blur_layers = alt]) = written[k].image
    /\ args.fx.fog_amount = 0 =>
         \A alt \in AltSelections :
           Recompose(k, [args.fx EXCEPT !.fog_layers = alt]) = written[k].image
    /\ \A l \in DOMAIN written[k].image.stack :
         /\ HasFx(written[k].image.stack[l], "blur")
              => (l - 1 \in args.fx.blur_layers /\ args.fx.blur_amount > 0)
         /\ HasFx(written[k].image.stack[l], "fog")
              => (l - 1 \in args.fx.fog_layers /\ args.fx.fog_amount > 0)

\* C11's case: mar143 encoded a frame of two layers, both selected for blur,
\* with blur_amount = 0.
C11_Witness ==
  /\ variant = "mar143" /\ ffmpeg = "ok" /\ OwnFrames # {}
  /\ Len(layers) = 2
  /\ args.fx.blur_amount = 0 /\ args.fx.blur_layers = {0, 1}

\* C12: when index 0 is selected for an effect whose amount is above 0, the
\* bottom layer's image carries that effect in every frame the encoder
\* receives.
C12_BaseEffects ==
  \A k \in OwnFrames :
    /\ (0 \in args.fx.blur_layers /\ args.fx.blur_amount > 0)
         => HasFx(written[k].image.stack[1], "blur")
    /\ (0 \in args.fx.fog_layers /\ args.fx.fog_amount > 0)
         => HasFx(written[k].image.stack[1], "fog")

\* What shows at a pixel of a stack of layer images composited "over" one
\* another: an opaque layer image hides everything below it.
RECURSIVE Visible(_, _)
Visible(stack, opaque) ==
  IF stack = << >> THEN << >>
  ELSE LET top == stack[Len(stack)]
       IN  IF top.path \in opaque
             THEN << top >>
             ELSE Visible(SubSeq(stack, 1, Len(stack) - 1), opaque) \o << top >>

\* C13: in every frame the encoder receives, the layer images lie in
\* ascending layer order from layer 0 up, and when all layers are opaque
\* only the highest layer's image shows, in whatever order the frames were
\* processed.
C13_ZOrder ==
  \A k \in OwnFrames :
    LET stack == written[k].image.stack
    IN  /\ \A l \in DOMAIN stack : stack[l].path[1] = l
        /\ Len(Visible(stack, PathsOf(layers))) = 1
        /\ Visible(stack, PathsOf(layers))[1].path = layers[Len(layers)][k]

\* C13's case: mar143 encoded frames of two layers that its workers had
\* completed out of order.
C13_Witness ==
  /\ variant = "mar143" /\ ffmpeg = "ok" /\ Len(layers) = 2
  /\ Len(completed) >= 2 /\ completed[1] = 1
  /\ Len(written) >= 2

\* C14: a merge whose video sink failed (the cv2 writer did not open, ffmpeg
\* exited with an error) ends with an error, never as a normal return.
C14_SinkFailure ==
  (Ended /\ (video_writer = "failed" \/ ffmpeg = "failed")) => err # "none"

\* The frames of the call's layers and effects alone: the composite of every
\* frame index below num_frames, in ascending order.
ExpectedFrames ==
  [k \in 1..num_frames |-> [index |-> k - 1, image |-> Recompose(k, args.fx)]]

\* C15: the frames a successful merge of non-empty layers hands to the
\* encoder are determined by its layers and effects alone, so that two
\* merges of the same layers and effects produce the same frames.
C15_Deterministic ==
  (Succeeded /\ ValidLayers(passed)) => written = ExpectedFrames

\* C16: a successful merge of non-empty layers composites, and hands to the
\* encoder, as many frames of its own as the longest layer passed to
\* merge_layers has paths.
C16_FrameCount ==
  (Succeeded /\ ValidLayers(passed))
  => /\ IsMaxLen(passed, Len(completed))
     /\ IsMaxLen(passed, Cardinality(OwnFrames))

\* C17: merge_layers leaves the layer path lists its caller passed in as they
\* were passed (same lengths, same contents), during the merge and after it,
\* in particular from the moment workers have been started.
C17_NoSideEffects ==
  caller # "none" => layers = passed

\* C18: when ffmpeg is started by a merge of non-empty layers, every worker
\* has finished and temp_frames holds exactly the frame files 0..num_frames-1 that this run wrote, with
\* no file of another run among them.
C18_StagingExact ==
  (variant = "mar143" /\ pc = "ffmpeg" /\ ValidLayers(passed))
  => /\ running = {}
     /\ DOMAIN temp_dir.files = 0..(num_frames - 1)
     /\ \A i \in DOMAIN temp_dir.files :
          temp_dir.files[i] = process_frame(PathsAt(i), args.fx).merged

\* C19: for a merge started by start_merge (normalized layers, one effect
\* selection and amounts for both paths), preview frame k and encoded frame k
\* are the same layers with the same effects in the same order, bottom
\* first; but for the frame update_preview has shrunk to the preview box,
\* they are the same image.
C19_PreviewAgrees ==
  caller = "start_merge"
  => \A k \in OwnFrames :
       /\ k \in DOMAIN merged_images
       /\ merged_images[k].stack = written[k].image.stack
       /\ k # 1 => merged_images[k] = written[k].image

C19_Witness ==
  /\ caller = "start_merge" /\ variant = "mar143" /\ ffmpeg = "ok"
  /\ Len(layers) = 2 /\ Cardinality(OwnFrames) >= 2
  /\ args.fx.blur_amount > 0 /\ args.fx.fog_amount > 0
  /\ 0 \in args.fx.blur_layers
  /\ 1 \in args.fx.blur_layers \cap args.fx.fog_layers

====
